---- MODULE Spec2Model ----
(***************************************************************************)
(* Model of run_inference.py: the command-line orchestrator that loads a   *)
(* YAML configuration and a label file, validates and scans an image       *)
(* folder, resolves the output stem and drives the DetectAndClassify       *)
(* pipeline.  One run of main() is a sequence of steps guarded by pc; the  *)
(* filesystem, the command line and the collaborator's outcomes are the    *)
(* environment.                                                            *)
(* The run starts once parse_args and setup_logging have returned: a      *)
(* command line argparse rejects never enters the try block.              *)
(*                                                                         *)
(* Encodings.                                                              *)
(*  - An optional Python value (None or a value) is a sequence of length   *)
(*    0 or 1.                                                              *)
(*  - A path is the sequence of its components; <<>> is the current        *)
(*    directory ".".                                                       *)
(*  - An output name as typed by the user is a record                      *)
(*    [segs, stem, ext]: the directory segments as written (they may hold  *)
(*    "."), and the last component split at its last dot (ext = "" when    *)
(*    the component has no suffix).  The empty string is                   *)
(*    [segs |-> <<>>, stem |-> "", ext |-> ""].                            *)
(*  - A line of the label file is a sequence of characters, without its    *)
(*    line terminator (str.strip removes the terminator with the rest of   *)
(*    the surrounding whitespace).                                         *)
(***************************************************************************)
EXTENDS Integers, Sequences, FiniteSets, TLC

\* ------------------------------------------------------------------ bounds
MaxImages == 2
MaxLines == 2
MaxLineLen == 2

\* ------------------------------------------------------- optional values
None == <<>>
Some(x) == <<x>>

\* ------------------------------------------------------------ the labels
Chars == {" ", "#", "a"}

IsSpace(c) == c = " "

RECURSIVE lstrip(_)
lstrip(s) ==
    IF s = <<>> THEN <<>>
    ELSE IF IsSpace(Head(s)) THEN lstrip(Tail(s)) ELSE s

RECURSIVE rstrip(_)
rstrip(s) ==
    IF s = <<>> THEN <<>>
    ELSE IF IsSpace(s[Len(s)]) THEN rstrip(SubSeq(s, 1, Len(s) - 1)) ELSE s

\* str.strip()
strip(s) == rstrip(lstrip(s))

\* line.startswith("#")
startswith_hash(s) == s # <<>> /\ Head(s) = "#"

\* keep_line without the comment test.
keep_line_nocomment(line) == strip(line) # <<>>

\* The body of the for loop of load_labels: the test of line 111 on the
\* stripped line.
keep_line(line) == strip(line) # <<>> /\ ~startswith_hash(strip(line))

\* The loop of load_labels, lines 106-112: labels, in file order.
RECURSIVE collect_labels(_)
collect_labels(lines) ==
    IF lines = <<>> THEN <<>>
    ELSE IF keep_line(Head(lines))
         THEN <<strip(Head(lines))>> \o collect_labels(Tail(lines))
         ELSE collect_labels(Tail(lines))

\* ------------------------------------------------------------ exceptions
\* An exception object: its class and the arguments it was raised with (the
\* message, then the values formatted into it).  code is the process exit
\* status the exception carries when nothing catches it.
Exc(cls, msg) == [cls |-> cls, msg |-> msg, code |-> 1]
NoExc == [cls |-> "", msg |-> <<>>, code |-> 0]

\* sys.exit(code) raises SystemExit(code).
SystemExit(code) == [cls |-> "SystemExit", msg |-> <<>>, code |-> code]

\* The outcome of a call: a value, or the exception it raised.
Return(v) == [exc |-> NoExc, val |-> Some(v)]
Raise(cls, msg) == [exc |-> Exc(cls, msg), val |-> None]

\* The base class of each exception class the run can meet.
ExcClasses ==
    {"BaseException", "SystemExit", "Exception", "OSError", "FileNotFoundError",
     "FileExistsError", "NotADirectoryError", "ValueError", "LookupError",
     "KeyError", "TypeError", "YAMLError", "RuntimeError"}

Base(cls) ==
    CASE cls \in {"SystemExit", "Exception"} -> "BaseException"
      [] cls \in {"OSError", "ValueError", "LookupError", "TypeError",
                  "YAMLError", "RuntimeError"} -> "Exception"
      [] cls \in {"FileNotFoundError", "FileExistsError",
                  "NotADirectoryError"} -> "OSError"
      [] cls = "KeyError" -> "LookupError"
      [] OTHER -> ""

RECURSIVE isinstance(_, _)
isinstance(cls, target) ==
    IF cls = "" THEN FALSE
    ELSE IF cls = target THEN TRUE
    ELSE isinstance(Base(cls), target)

\* The clauses with the last one widened to a bare except.
ExceptClausesBare ==
    << [catches |-> "FileNotFoundError", level |-> "ERROR", prefix |-> "File not found"],
       [catches |-> "ValueError", level |-> "ERROR", prefix |-> "Configuration error"],
       [catches |-> "BaseException", level |-> "ERROR", prefix |-> "Unexpected error"] >>

\* The except clauses of main, in order, with the prefix each one logs.
ExceptClauses ==
    << [catches |-> "FileNotFoundError", level |-> "ERROR", prefix |-> "File not found"],
       [catches |-> "ValueError", level |-> "ERROR", prefix |-> "Configuration error"],
       [catches |-> "Exception", level |-> "ERROR", prefix |-> "Unexpected error"] >>

\* The index of the first clause that catches an exception of class cls, 0
\* when none does.
Catching(cls) ==
    LET hits == {i \in DOMAIN ExceptClauses : isinstance(cls, ExceptClauses[i].catches)}
    IN IF hits = {} THEN 0 ELSE CHOOSE i \in hits : \A j \in hits : i <= j

\* ------------------------------------------------------------ the labels
\* load_labels(label_path); label_file is None when the path does not exist,
\* and the lines of the file otherwise.
load_labels(label_file) ==
    IF label_file = None
    THEN Raise("FileNotFoundError", <<"Labels file not found">>)
    ELSE IF collect_labels(label_file[1]) = <<>>
         THEN Raise("ValueError", <<"No labels found">>)
         ELSE Return(collect_labels(label_file[1]))

\* --------------------------------------------------------- configuration
\* What yaml.safe_load makes of the configuration file: kind is "missing"
\* (no such file), "malformed" (the parser raises), "null" (an empty
\* document, loaded as None) or "mapping" (loaded as the dict map).
DETECTOR_PATH == "md_v5a.pt"
CLASSIFIER_PATH == "awc.pth"
LABEL_PATH == "labels.txt"

\* required_fields of load_config.
required_fields == <<"detector_path", "classifier_path">>

\* [field for field in required_fields if field not in config]
missing_fields(config) ==
    SelectSeq(required_fields, LAMBDA field : field \notin DOMAIN config)

\* load_config(config_path)
load_config(doc) ==
    CASE doc.kind = "missing" ->
            Raise("FileNotFoundError", <<"Config file not found">>)
      [] doc.kind = "malformed" ->
            Raise("YAMLError", <<"while parsing">>)
      [] doc.kind = "null" ->
            Raise("TypeError", <<"argument of type 'NoneType' is not iterable">>)
      [] OTHER ->
            IF missing_fields(doc.map) # <<>>
            THEN Raise("ValueError",
                       <<"Missing required config fields">> \o missing_fields(doc.map))
            ELSE Return(doc.map)

\* config.get(key, default)
get(config, key, default) == IF key \in DOMAIN config THEN config[key] ELSE default

\* The defaults of lines 181-188.
DefaultClassifierBase == "tf_efficientnet_b5.ns_jft_in1k"
DefaultDetectionThreshold == "0.1"
DefaultClassificationThreshold == "0.5"
DefaultBatchSize == 4
DefaultTopN == 1

\* ------------------------------------------------------ paths and files
\* An output name as the user typed it.
Name(segs, stem, ext) == [segs |-> segs, stem |-> stem, ext |-> ext]
EmptyString == Name(<<>>, "", "")

\* Truth value of an optional string: None and "" are false.
truthy(s) == s # None /\ s[1] # EmptyString

\* pathlib.Path(name): "." components are dropped.
Path(name) ==
    [segs |-> SelectSeq(name.segs, LAMBDA c : c # "."),
     stem |-> name.stem, ext |-> name.ext]

\* with_suffix left out: the path as it is.
with_suffix_kept(p) ==
    IF p.stem = "" /\ p.ext = ""
    THEN Raise("ValueError", <<"has an empty name">>)
    ELSE Return(p)

\* Path.with_suffix(''): the last suffix of the last component is removed; a
\* path with an empty name (Path("") is ".") raises ValueError.
with_suffix_empty(p) ==
    IF p.stem = "" /\ p.ext = ""
    THEN Raise("ValueError", <<"has an empty name">>)
    ELSE Return([p EXCEPT !.ext = ""])

\* The directories of the filesystem when the run starts, and its regular
\* files.  The current directory is <<>>.
InitialDirs == {<<>>, <<"imgs">>, <<"out">>}
RegularFiles == {<<"notes.txt">>}

exists(path, dirs) == path \in dirs \/ path \in RegularFiles
is_dir(path, dirs) == path \in dirs

Prefixes(path) == {SubSeq(path, 1, n) : n \in 0..Len(path)}

\* mkdir that creates nothing.
mkdir_skipped(path, dirs) ==
    IF path \in RegularFiles \/ Prefixes(path) \cap RegularFiles # {}
    THEN Raise("FileExistsError", <<"File exists">>)
    ELSE Return(dirs)

\* Path.mkdir(parents=True, exist_ok=True) on the directory path: the
\* directories that exist afterwards, or the OSError raised when path, or
\* one of its ancestors, is a regular file.
mkdir(path, dirs) ==
    IF path \in dirs THEN Return(dirs)
    ELSE IF path \in RegularFiles
         THEN Raise("FileExistsError", <<"File exists">>)
         ELSE IF Prefixes(path) \cap RegularFiles # {}
              THEN Raise("NotADirectoryError", <<"Not a directory">>)
              ELSE Return(dirs \cup Prefixes(path))

\* Lines 218-223 of main: the stem handed to predict and the directories
\* that exist afterwards, or the exception raised.
resolve_output_stem(output_name, image_folder, dirs) ==
    LET stripped == with_suffix_empty(Path(output_name))
    IN IF stripped.val = None THEN [exc |-> stripped.exc, val |-> None]
       ELSE LET p == stripped.val[1]
            IN IF p.segs = <<>>
               THEN Return([stem |-> [segs |-> image_folder, stem |-> p.stem, ext |-> p.ext],
                            dirs |-> dirs])
               ELSE LET made == mkdir(p.segs, dirs)
                    IN IF made.val = None THEN [exc |-> made.exc, val |-> None]
                       ELSE Return([stem |-> p, dirs |-> made.val[1]])

\* The default of line 188, "results".
DefaultOutputName == Name(<<>>, "results", "")

\* The precedence turned round: the configuration first.
effective_output_name_config_first(args_output, config) ==
    IF "output_name" \in DOMAIN config THEN config["output_name"]
    ELSE IF truthy(args_output) THEN args_output[1] ELSE DefaultOutputName

\* Line 188: args.output or config.get("output_name", "results")
effective_output_name(args_output, config) ==
    IF truthy(args_output) THEN args_output[1]
    ELSE get(config, "output_name", DefaultOutputName)

\* ---------------------------------------------------------- the inputs
\* The optional keys of a configuration that sets them all.
TunedValues ==
    [classifier_base |-> "resnet50", detection_threshold |-> "0.3",
     classification_threshold |-> "0.7", classification_batch_size |-> 8,
     topn |-> 3]

RequiredValues ==
    [detector_path |-> DETECTOR_PATH, classifier_path |-> CLASSIFIER_PATH,
     label_path |-> LABEL_PATH]

\* Output names: "foo.csv", "./results", "out/results", "new/sub/r.json",
\* "notes.txt/r" (under a regular file) and "".
OutputNames ==
    {Name(<<>>, "foo", ".csv"), Name(<<".">>, "results", ""),
     Name(<<"out">>, "results", ""), Name(<<"new", "sub">>, "r", ".json"),
     Name(<<"notes.txt">>, "r", ""), EmptyString}

ConfigOutputNames == {Name(<<>>, "cfg", ".csv"), Name(<<"out">>, "cfg", ""), EmptyString}

\* The dict with the required keys in req, the optional keys when tuned, and
\* output_name when out is not None.
Mapping(req, tuned, out) ==
    LET keys == req \cup (IF tuned THEN DOMAIN TunedValues ELSE {})
                    \cup (IF out = None THEN {} ELSE {"output_name"})
    IN [k \in keys |->
          IF k = "output_name" THEN out[1]
          ELSE IF k \in DOMAIN RequiredValues THEN RequiredValues[k]
          ELSE TunedValues[k]]

ConfigDocs ==
    {[kind |-> k, map |-> <<>>] : k \in {"missing", "malformed", "null"}}
    \cup {[kind |-> "mapping", map |-> Mapping(req, tuned, out)] :
            req \in SUBSET DOMAIN RequiredValues, tuned \in BOOLEAN,
            out \in {None} \cup {Some(n) : n \in ConfigOutputNames}}

\* The image_folder argument: "imgs", ".", "missing" and "notes.txt".
ImageFolders == {<<"imgs">>, <<>>, <<"missing">>, <<"notes.txt">>}

OutputArgs == {None} \cup {Some(n) : n \in OutputNames}

\* Label files of the runs of main: none, comments only, one label, and a
\* file with a comment, a blank line and two labels.
MainLabelFiles ==
    {None,
     Some(<< <<"#", "a">>, <<" ">> >>),
     Some(<< <<"a">> >>),
     Some(<< <<"#">>, <<>>, <<"a", " ">>, <<" ", "a">> >>)}

\* Every label file of at most MaxLines lines of at most MaxLineLen characters.
Lines == UNION {[1..n -> Chars] : n \in 0..MaxLineLen}
AllLabelFiles == {None} \cup {Some(f) : f \in UNION {[1..n -> Lines] : n \in 0..MaxLines}}

\* What the collaborator's constructor and predict may do: return, or raise.
PipelineOutcomes == {"ok", "FileNotFoundError", "ValueError", "RuntimeError"}

\* ------------------------------------------------------------- the state
VARIABLES
    pc,            \* the step of main about to run
    cfg_doc,       \* the configuration file on disk
    label_file,    \* the label file on disk
    image_folder,  \* Path(args.image_folder)
    args_output,   \* args.output
    n_images,      \* how many supported images lie under image_folder
    fs_dirs,       \* the directories that exist
    config, labels, image_paths, params, output_name, pipeline,
    calls,         \* the calls made to the collaborator, in order
    exc,           \* the exception in flight
    log,           \* the records logged, in order
    exit_code      \* the exit status of the process, None while it runs

vars == <<pc, cfg_doc, label_file, image_folder, args_output, n_images, fs_dirs,
          config, labels, image_paths, params, output_name, pipeline, calls,
          exc, log, exit_code>>

inputs == <<cfg_doc, label_file, image_folder, args_output, n_images>>

Record(level, msg, args) == [level |-> level, msg |-> msg, args |-> args]
INFO(msg, args) == Record("INFO", msg, args)

\* The state once parse_args and setup_logging have returned.
Started ==
    /\ pc = "load_config"
    /\ fs_dirs = InitialDirs
    /\ config = None /\ labels = None /\ image_paths = None /\ params = None
    /\ output_name = None /\ pipeline = None
    /\ calls = <<>>
    /\ exc = NoExc
    /\ log = <<INFO("Logging to", <<>>)>>
    /\ exit_code = None

Init ==
    /\ cfg_doc \in ConfigDocs
    /\ label_file \in MainLabelFiles
    /\ image_folder \in ImageFolders
    /\ args_output \in OutputArgs
    /\ n_images \in 0..MaxImages
    /\ Started

\* raise e inside the try block
Raised(e) ==
    /\ exc' = e
    /\ pc' = "except"

\* Lines 153-154.
LoadConfig ==
    /\ pc = "load_config"
    /\ LET r == load_config(cfg_doc)
       IN /\ log' = Append(log, INFO("Loading config from", <<>>))
          /\ IF r.val = None
             THEN Raised(r.exc) /\ UNCHANGED config
             ELSE config' = r.val /\ pc' = "load_labels" /\ UNCHANGED exc
    /\ UNCHANGED <<inputs, fs_dirs, labels, image_paths, params, output_name,
                   pipeline, calls, exit_code>>

\* Lines 157-159.  config['label_path'] raises KeyError when the key is
\* absent, before anything is logged.
LoadLabels ==
    /\ pc = "load_labels"
    /\ IF "label_path" \notin DOMAIN config[1]
       THEN Raised(Exc("KeyError", <<"label_path">>)) /\ UNCHANGED <<log, labels>>
       ELSE LET r == load_labels(label_file)
                l1 == Append(log, INFO("Loading labels from", <<config[1]["label_path"]>>))
            IN IF r.val = None
               THEN Raised(r.exc) /\ log' = l1 /\ UNCHANGED labels
               ELSE /\ labels' = r.val
                    /\ log' = Append(l1, INFO("Loaded species labels", <<Len(r.val[1])>>))
                    /\ pc' = "validate_folder"
                    /\ UNCHANGED exc
    /\ UNCHANGED <<inputs, fs_dirs, config, image_paths, params, output_name,
                   pipeline, calls, exit_code>>

\* Lines 162-166.
ValidateFolder ==
    /\ pc = "validate_folder"
    /\ IF ~exists(image_folder, fs_dirs)
       THEN Raised(Exc("FileNotFoundError", <<"Image folder not found">>))
       ELSE IF ~is_dir(image_folder, fs_dirs)
            THEN Raised(Exc("ValueError", <<"Not a directory">>))
            ELSE pc' = "scan" /\ UNCHANGED exc
    /\ UNCHANGED <<inputs, fs_dirs, config, labels, image_paths, params,
                   output_name, pipeline, calls, log, exit_code>>

\* get_all_image_paths(str(image_folder)): the images under the folder.
get_all_image_paths(folder, n) == [i \in 1..n |-> [folder |-> folder, image |-> i]]

\* Lines 169-176.
Scan ==
    /\ pc = "scan"
    /\ LET found == get_all_image_paths(image_folder, n_images)
           l1 == Append(log, INFO("Scanning for images in", <<image_folder>>))
       IN /\ image_paths' = Some(found)
          /\ IF found = <<>>
             THEN /\ log' = Append(l1, Record("WARNING", "No images found", <<>>))
                  /\ Raised(SystemExit(0))
             ELSE /\ log' = Append(l1, INFO("Found images to process", <<Len(found)>>))
                  /\ pc' = "resolve_params"
                  /\ UNCHANGED exc
    /\ UNCHANGED <<inputs, fs_dirs, config, labels, params, output_name,
                   pipeline, calls, exit_code>>

\* Lines 179-185: the values read from the configuration, with defaults.
resolve_params(cfg) ==
    [detector_path |-> cfg["detector_path"],
     classifier_path |-> cfg["classifier_path"],
     classifier_base |-> get(cfg, "classifier_base", DefaultClassifierBase),
     detection_threshold |-> get(cfg, "detection_threshold", DefaultDetectionThreshold),
     classification_threshold |->
        get(cfg, "classification_threshold", DefaultClassificationThreshold),
     batch_size |-> get(cfg, "classification_batch_size", DefaultBatchSize),
     topn |-> get(cfg, "topn", DefaultTopN)]

Separator == INFO("=" , <<>>)
Dashes == INFO("-", <<>>)

\* The summary with its first lines only: nothing after the classifier.
summary_cut(p, name) ==
    << Separator,
       INFO("Configuration:", <<>>),
       INFO("Detector model", <<p.detector_path>>),
       INFO("Classifier model", <<p.classifier_path>>),
       Separator >>

\* Lines 190-199: the records of the configuration summary.
summary(p, name) ==
    << Separator,
       INFO("Configuration:", <<>>),
       INFO("Detector model", <<p.detector_path>>),
       INFO("Classifier model", <<p.classifier_path>>),
       INFO("Detection threshold", <<p.detection_threshold>>),
       INFO("Classification threshold", <<p.classification_threshold>>),
       INFO("Classification batch size", <<p.batch_size>>),
       INFO("Top-N predictions", <<p.topn>>),
       INFO("Output name", <<name>>),
       Separator >>

\* Lines 179-199.
ResolveParams ==
    /\ pc = "resolve_params"
    /\ params' = Some(resolve_params(config[1]))
    /\ output_name' = Some(effective_output_name(args_output, config[1]))
    /\ log' = log \o summary(resolve_params(config[1]),
                             effective_output_name(args_output, config[1]))
    /\ pc' = "construct"
    /\ UNCHANGED <<inputs, fs_dirs, config, labels, image_paths, pipeline,
                   calls, exc, exit_code>>

Call(fn, args) == [fn |-> fn, args |-> args]

\* Lines 202-211: DetectAndClassify(...) returns the pipeline or raises.
Construct ==
    /\ pc = "construct"
    /\ calls' = Append(calls,
          Call("DetectAndClassify",
               [detector_path |-> params[1].detector_path,
                classifier_path |-> params[1].classifier_path,
                label_names |-> labels[1],
                classifier_base |-> params[1].classifier_base,
                detection_threshold |-> params[1].detection_threshold,
                clas_threshold |-> params[1].classification_threshold]))
    /\ \E outcome \in PipelineOutcomes :
          IF outcome = "ok"
          THEN /\ pipeline' = Some("DetectAndClassify")
               /\ log' = log \o <<INFO("Loading models", <<>>),
                                  INFO("Models loaded successfully", <<>>)>>
               /\ pc' = "resolve_output"
               /\ UNCHANGED exc
          ELSE /\ Raised(Exc(outcome, <<"raised by DetectAndClassify">>))
               /\ log' = Append(log, INFO("Loading models", <<>>))
               /\ UNCHANGED pipeline
    /\ UNCHANGED <<inputs, fs_dirs, config, labels, image_paths, params,
                   output_name, exit_code>>

\* Lines 214-223.
ResolveOutput ==
    /\ pc = "resolve_output"
    /\ log' = log \o <<INFO("Starting detection and classification", <<>>), Dashes>>
    /\ LET r == resolve_output_stem(output_name[1], image_folder, fs_dirs)
       IN IF r.val = None
          THEN Raised(r.exc) /\ UNCHANGED <<output_name, fs_dirs>>
          ELSE /\ output_name' = Some(r.val[1].stem)
               /\ fs_dirs' = r.val[1].dirs
               /\ pc' = "predict"
               /\ UNCHANGED exc
    /\ UNCHANGED <<inputs, config, labels, image_paths, params, pipeline,
                   calls, exit_code>>

\* Lines 225-231: pipeline.predict(...) returns or raises.
Predict ==
    /\ pc = "predict"
    /\ calls' = Append(calls,
          Call("predict",
               [inp |-> image_paths[1], clas_bs |-> params[1].batch_size,
                topn |-> params[1].topn, output_name |-> output_name[1],
                show_progress |-> TRUE]))
    /\ \E outcome \in PipelineOutcomes :
          IF outcome = "ok"
          THEN pc' = "finish" /\ UNCHANGED exc
          ELSE Raised(Exc(outcome, <<"raised by predict">>))
    /\ UNCHANGED <<inputs, fs_dirs, config, labels, image_paths, params,
                   output_name, pipeline, log, exit_code>>

\* Lines 233-235, and the return of main.
Finish ==
    /\ pc = "finish"
    /\ log' = log \o <<Dashes, INFO("Results saved to", <<output_name[1]>>),
                       INFO("Done!", <<>>)>>
    /\ exit_code' = Some(0)
    /\ pc' = "exited"
    /\ UNCHANGED <<inputs, fs_dirs, config, labels, image_paths, params,
                   output_name, pipeline, calls, exc>>

\* The handler retries the run instead of exiting.
ExceptRetry ==
    /\ pc = "except"
    /\ log' = Append(log, Record("ERROR", "retrying", <<>>))
    /\ pc' = "load_config"
    /\ UNCHANGED <<inputs, fs_dirs, config, labels, image_paths, params,
                   output_name, pipeline, calls, exc, exit_code>>

\* Lines 237-245: the first clause that catches the exception logs it and
\* calls sys.exit(1); an exception no clause catches leaves main and ends the
\* process with the status it carries.
Except ==
    /\ pc = "except"
    /\ LET i == Catching(exc.cls)
       IN IF i = 0
          THEN exit_code' = Some(exc.code) /\ UNCHANGED log
          ELSE /\ log' = Append(log, Record(ExceptClauses[i].level,
                                            ExceptClauses[i].prefix, exc.msg))
               /\ exit_code' = Some(1)
    /\ pc' = "exited"
    /\ UNCHANGED <<inputs, fs_dirs, config, labels, image_paths, params,
                   output_name, pipeline, calls, exc>>

Next ==
    \/ LoadConfig
    \/ LoadLabels
    \/ ValidateFolder
    \/ Scan
    \/ ResolveParams
    \/ Construct
    \/ ResolveOutput
    \/ Predict
    \/ Finish
    \/ Except

Spec == Init /\ [][Next]_vars

\* ------------------------------------------ load_labels over every file
\* The run at the call of load_labels, under a complete configuration, with
\* every label file within the bounds.
InitLabels ==
    /\ cfg_doc = [kind |-> "mapping", map |-> Mapping(DOMAIN RequiredValues, FALSE, None)]
    /\ label_file \in AllLabelFiles
    /\ image_folder = <<"imgs">>
    /\ args_output = None
    /\ n_images = 1
    /\ pc = "load_labels"
    /\ fs_dirs = InitialDirs
    /\ config = Some(cfg_doc.map)
    /\ labels = None /\ image_paths = None /\ params = None
    /\ output_name = None /\ pipeline = None
    /\ calls = <<>>
    /\ exc = NoExc
    /\ log = <<INFO("Logging to", <<>>), INFO("Loading config from", <<>>)>>
    /\ exit_code = None

NextLabels ==
    \/ LoadLabels
    \/ Except

SpecLabels == InitLabels /\ [][NextLabels]_vars

\* ------------------------------------------------------------ the claims
\* What the properties below say about the inputs and the log, stated
\* without the operators of the run.
LastRecord == log[Len(log)]
ErrorRecords == {i \in DOMAIN log : log[i].level = "ERROR"}
Logged(msg, v) == \E i \in DOMAIN log : log[i].msg = msg /\ log[i].args = <<v>>
PredictCalls == {i \in DOMAIN calls : calls[i].fn = "predict"}

DocKeys == IF cfg_doc.kind = "mapping" THEN DOMAIN cfg_doc.map ELSE {}
SpecRequiredKeys == {"detector_path", "classifier_path", "label_path"}
CheckedKeys == {"detector_path", "classifier_path"}

Blank(line) == \A i \in DOMAIN line : line[i] = " "
Comment(line) ==
    \E i \in DOMAIN line : line[i] = "#" /\ \A j \in 1..(i - 1) : line[j] = " "
Trimmed(line) ==
    LET ink == {i \in DOMAIN line : line[i] # " "}
    IN SubSeq(line, CHOOSE i \in ink : \A j \in ink : i <= j,
                    CHOOSE i \in ink : \A j \in ink : j <= i)
KeptLines(file) == {i \in DOMAIN file : ~Blank(file[i]) /\ ~Comment(file[i])}
Nth(S, k) == CHOOSE i \in S : Cardinality({j \in S : j <= i}) = k

ValidInputs ==
    /\ cfg_doc.kind = "mapping" /\ SpecRequiredKeys \subseteq DocKeys
    /\ label_file # None /\ KeptLines(label_file[1]) # {}

\* C1: every failing run ends with exit status 1 after logging one error
\* record, whose prefix is "File not found" for a missing config file, label
\* file or image folder, "Configuration error" for missing required fields,
\* a non-directory image_folder or a malformed configuration document, and
\* "Unexpected error" for every exception that is neither a FileNotFoundError
\* nor a ValueError.
C1_FailureTaxonomy ==
    (pc = "exited" /\ exit_code # Some(0)) =>
        /\ exit_code = Some(1)
        /\ ErrorRecords = {Len(log)}
        /\ (cfg_doc.kind = "missing") => LastRecord.msg = "File not found"
        /\ (cfg_doc.kind = "malformed") => LastRecord.msg = "Configuration error"
        /\ (cfg_doc.kind \in {"null", "mapping"} /\ ~(SpecRequiredKeys \subseteq DocKeys))
              => LastRecord.msg = "Configuration error"
        /\ exc.msg \in {<<"Labels file not found">>, <<"Image folder not found">>}
              => LastRecord.msg = "File not found"
        /\ exc.msg = <<"Not a directory">> => LastRecord.msg = "Configuration error"
        /\ exc.cls \notin {"FileNotFoundError", "ValueError"}
              => LastRecord.msg = "Unexpected error"

\* C2: a configuration with detector_path and classifier_path but no
\* label_path fails as a configuration error, exit status 1, before
\* load_labels is invoked, with no images discovered and no pipeline call.
C2_LabelPathRequired ==
    (pc = "exited" /\ cfg_doc.kind = "mapping" /\ CheckedKeys \subseteq DocKeys
        /\ "label_path" \notin DocKeys) =>
        /\ exit_code = Some(1)
        /\ LastRecord.level = "ERROR" /\ LastRecord.msg = "Configuration error"
        /\ labels = None /\ image_paths = None /\ calls = <<>>
        /\ \A i \in DOMAIN log : log[i].msg # "Loading labels from"

\* C3: with a valid configuration and label file, an image_folder that is a
\* directory holding no image ends the run with exit status 0: no pipeline is
\* constructed, predict is not invoked, no directory is created and no except
\* clause logs an error.
C3_NoImagesCleanExit ==
    (ValidInputs /\ image_folder \in InitialDirs /\ n_images = 0) =>
        /\ calls = <<>> /\ pipeline = None
        /\ fs_dirs = InitialDirs
        /\ ErrorRecords = {}
        /\ pc \notin {"resolve_params", "construct", "resolve_output", "predict", "finish"}
        /\ pc = "exited" => exit_code = Some(0)

C3_Witness ==
    /\ ValidInputs /\ image_folder \in InitialDirs /\ n_images = 0
    /\ pc = "exited" /\ exit_code = Some(0)
    /\ LastRecord.msg = "No images found"

\* The output name the run asked for: --output unless absent or empty, else
\* the configuration's output_name, else "results".
Requested ==
    IF args_output # None /\ args_output[1] # Name(<<>>, "", "") THEN args_output[1]
    ELSE IF "output_name" \in DocKeys THEN cfg_doc.map["output_name"]
    ELSE Name(<<>>, "results", "")

\* A name has a directory component when one of its segments is not ".".
HasDirectory(name) == \E k \in DOMAIN name.segs : name.segs[k] # "."
Directory(name) == SelectSeq(name.segs, LAMBDA c : c # ".")

\* C4: the stem passed to predict is image_folder/<name without its
\* extension> when the requested name has no directory component; otherwise
\* it is the requested path without its extension, whatever image_folder is,
\* and its directory and every ancestor of it exist.
C4_OutputStem ==
    \A i \in PredictCalls :
        IF ~HasDirectory(Requested)
        THEN calls[i].args.output_name =
                [segs |-> image_folder, stem |-> Requested.stem, ext |-> ""]
        ELSE /\ calls[i].args.output_name =
                    [segs |-> Directory(Requested), stem |-> Requested.stem, ext |-> ""]
             /\ \A n \in 0..Len(Directory(Requested)) :
                    SubSeq(Directory(Requested), 1, n) \in fs_dirs

C4_Witness ==
    /\ PredictCalls # {}
    /\ Requested = Name(<<"new", "sub">>, "r", ".json")
    /\ image_folder = <<"imgs">>
    /\ <<"new", "sub">> \in fs_dirs

\* C5 as stated: whenever --output is supplied its value is the effective
\* output name, else the configuration's output_name when present, else
\* "results".
C5_Original ==
    pc = "construct" =>
        output_name[1] =
            IF args_output # None THEN args_output[1]
            ELSE IF "output_name" \in DocKeys THEN cfg_doc.map["output_name"]
            ELSE Name(<<>>, "results", "")

\* C5, amended: a non-empty --output is the effective output name whatever
\* the configuration holds; with --output absent or empty it is the
\* configuration's output_name when that key is present, else "results".
C5_Precedence == pc = "construct" => output_name[1] = Requested

C5_Witness ==
    /\ pc = "construct"
    /\ args_output = Some(Name(<<"out">>, "results", ""))
    /\ "output_name" \in DocKeys
    /\ output_name = args_output

\* C6: load_labels over an existing file raises the empty-label-set error
\* when every line is blank or a comment, and otherwise returns the stripped
\* remaining lines, one per kept line, in file order.
C6_LoadLabels ==
    (pc # "load_labels" /\ label_file # None) =>
        LET file == label_file[1]
            kept == KeptLines(file)
        IN IF kept = {}
           THEN labels = None /\ exc.cls = "ValueError" /\ exc.msg = <<"No labels found">>
           ELSE /\ labels # None
                /\ Len(labels[1]) = Cardinality(kept)
                /\ \A k \in 1..Cardinality(kept) :
                      labels[1][k] = Trimmed(file[Nth(kept, k)])

C6_Witness ==
    /\ pc = "validate_folder"
    /\ label_file = Some(<< <<"a", " ">>, <<" ", "a">> >>)
    /\ labels = Some(<< <<"a">>, <<"a">> >>)

\* C7: for a configuration document that parses, load_config raises a
\* configuration error listing exactly the missing fields among those it
\* checks, and returns the parsed mapping only when none is missing.
C7_MissingFields ==
    (pc # "load_config" /\ cfg_doc.kind \in {"null", "mapping"}) =>
        IF CheckedKeys \subseteq DocKeys
        THEN config = Some(cfg_doc.map)
        ELSE /\ config = None
             /\ exc.cls = "ValueError"
             /\ Head(exc.msg) = "Missing required config fields"
             /\ {exc.msg[k] : k \in 2..Len(exc.msg)} = CheckedKeys \ DocKeys

\* C8: when predict is about to be invoked the directory of the output stem
\* exists, and a directory that existed already did not stop the run.
C8_StemDirectoryExists ==
    /\ pc = "predict" => output_name[1].segs \in fs_dirs
    /\ \A i \in PredictCalls : calls[i].args.output_name.segs \in fs_dirs
    /\ exc.cls \in {"FileExistsError", "NotADirectoryError"}
          => Directory(Requested) \notin InitialDirs

C8_Witness ==
    /\ pc = "predict"
    /\ output_name[1].segs = <<"new", "sub">>
    /\ <<"new", "sub">> \notin InitialDirs

Order ==
    <<"load_config", "load_labels", "validate_folder", "scan", "resolve_params",
      "construct", "resolve_output", "predict", "finish", "exited">>

\* C9: the run moves one step forward at a time, or to the except clauses
\* and from there to exit; a step runs only with the results of the earlier
\* ones; predict is invoked at most once and only from the step after output
\* resolution; nothing happens after exit, and the except clauses invoke
\* nothing and retry nothing.
C9_Linear ==
    /\ [](/\ pc \in {Order[k] : k \in 2..9} => config # None
          /\ pc \in {Order[k] : k \in 3..9} => labels # None
          /\ pc \in {Order[k] : k \in 5..9} => image_paths # None /\ image_paths[1] # <<>>
          /\ pc \in {Order[k] : k \in 8..9} => output_name # None /\ pipeline # None
          /\ Cardinality(PredictCalls) <= 1)
    /\ [][/\ \/ \E k \in 1..9 : pc = Order[k] /\ pc' = Order[k + 1] /\ exc' = NoExc
             \/ pc \notin {"except", "exited"} /\ pc' = "except"
             \/ pc = "except" /\ pc' = "exited"
          /\ calls' # calls /\ calls'[Len(calls')].fn = "predict" => pc = "predict"
          /\ pc = "except" => calls' = calls /\ fs_dirs' = fs_dirs]_vars

C9_Witness ==
    /\ pc = "exited" /\ exit_code = Some(0)
    /\ Cardinality(PredictCalls) = 1
    /\ LastRecord.msg = "Done!"

====
